---------------------------- MODULE Spec2Model ----------------------------
(***************************************************************************)
(* A state-machine model of part_1_spam_classifier.ipynb: a notebook that  *)
(* loads a tab-separated SMS corpus, splits it, vectorizes it twice        *)
(* (token counts, then TF-IDF), fits a logistic regression on each and     *)
(* prints an AUC, the extreme coefficients and one ad-hoc prediction.      *)
(*                                                                         *)
(* The notebook is a sequence of cells; pc names the next cell of a        *)
(* top-to-bottom run ("Run All"), which stops at the first cell that       *)
(* raises.  The calls into pandas / numpy / scikit-learn are modelled by   *)
(* what those calls do with the arguments the notebook passes.             *)
(*                                                                         *)
(* Text is a sequence of one-character strings.  A pandas cell value is a  *)
(* record [nan, s]: NaN, or the string s.  A Series is a sequence of       *)
(* records [idx, val]; idx is the row's position in the DataFrame          *)
(* (1-based here, the RangeIndex label plus one).                          *)
(***************************************************************************)
EXTENDS Integers, Sequences, FiniteSets, TLC

VARIABLES
    file,                \* the lines of ./data/SMSSpamCollection.txt
    pc,                  \* the next cell to run, or "done" / "aborted"
    error,               \* the exception that stopped the run, or "none"
    rng,                 \* state of numpy's global (unseeded) generator
    data,                \* the DataFrame: a sequence of [target, text]
    shown,               \* what the last cell displayed
    X_train, X_test, y_train, y_test,
    vectorizers,         \* the vectorizer objects, by identity
    models,              \* the LogisticRegression objects, by identity
    vect, model,         \* the objects the names vect and model are bound to
    X_train_vectorized,  \* [by, rows]: the matrix and the vectorizer that made it
    predictions,
    feature_names, sorted_coef_index, sorted_tfidf_index,
    input_text,
    predictLog,          \* history: one entry per model.predict(vect.transform(..))
    aucLog,              \* history: the values roc_auc_score returned
    prevSplit            \* history: the partition of the previous run of the notebook

vars == <<file, pc, error, rng, data, shown, X_train, X_test, y_train, y_test,
          vectorizers, models, vect, model, X_train_vectorized, predictions,
          feature_names, sorted_coef_index, sorted_tfidf_index, input_text,
          predictLog, aucLog, prevSplit>>

-----------------------------------------------------------------------------
(* Bounds of the model.                                                    *)

MaxRows == 5          \* lines in the input file
MaxEntropy == 1       \* the global generator starts in one of 0..MaxEntropy

-----------------------------------------------------------------------------
(* Characters and strings.                                                 *)

Code ==
    [c \in {"\t", "\n", " ", "\"", "G", "H", "I", "O", "S",
            "a", "g", "h", "i", "k", "m", "o", "p", "s"} |->
        CASE c = "\t" -> 9   [] c = "\n" -> 10  [] c = " " -> 32  [] c = "\"" -> 34
          [] c = "G" -> 71   [] c = "H" -> 72   [] c = "I" -> 73
          [] c = "O" -> 79   [] c = "S" -> 83
          [] c = "a" -> 97   [] c = "g" -> 103  [] c = "h" -> 104 [] c = "i" -> 105
          [] c = "k" -> 107  [] c = "m" -> 109  [] c = "o" -> 111 [] c = "p" -> 112
          [] c = "s" -> 115]

Chars == DOMAIN Code

IsUpper(c) == Code[c] >= 65 /\ Code[c] <= 90

IsWordChar(c) ==
    \/ Code[c] >= 48 /\ Code[c] <= 57
    \/ Code[c] >= 65 /\ Code[c] <= 90
    \/ Code[c] >= 97 /\ Code[c] <= 122
    \/ Code[c] = 95

\* str.lower() on one character
LowerChar(c) ==
    IF IsUpper(c) THEN CHOOSE d \in Chars : Code[d] = Code[c] + 32 ELSE c

Lower(s) == [i \in 1..Len(s) |-> LowerChar(s[i])]

\* Python's str ordering: by code point, a proper prefix first
RECURSIVE StrLess(_, _)
StrLess(s, t) ==
    IF s = <<>> THEN t # <<>>
    ELSE IF t = <<>> THEN FALSE
    ELSE IF s[1] # t[1] THEN Code[s[1]] < Code[t[1]]
    ELSE StrLess(Tail(s), Tail(t))

\* sorted(set of strings)
RECURSIVE SortedStrings(_)
SortedStrings(S) ==
    IF S = {} THEN <<>>
    ELSE LET m == CHOOSE x \in S : \A y \in S \ {x} : StrLess(x, y)
         IN <<m>> \o SortedStrings(S \ {m})

RECURSIVE SumSeq(_)
SumSeq(q) == IF q = <<>> THEN 0 ELSE q[1] + SumSeq(Tail(q))

NaN == [nan |-> TRUE, s |-> <<>>]
Str(s) == [nan |-> FALSE, s |-> s]

-----------------------------------------------------------------------------
(* pd.read_csv(path, encoding="utf-8", header=None, delimiter="\t",        *)
(*             names=["target", "text"])                                   *)
(* with the defaults the call leaves alone: quotechar '"', minimal         *)
(* quoting, doubled quotes, blank lines skipped, bad lines raise.          *)

\* The parser's tokenizer over the characters cs of one line, newline
\* included, from position i.  st is the tokenizer state, fld the field being
\* read, row the fields of the current record, rows the finished records; a
\* quoted field carries all four over to the next line.
RECURSIVE Tokenize(_, _, _, _, _, _)
Tokenize(cs, i, st, fld, row, rows) ==
    IF i > Len(cs)
    THEN [st |-> st, fld |-> fld, row |-> row, rows |-> rows]
    ELSE
    LET c == cs[i] IN
    CASE st = "START" ->
            IF c = "\"" THEN Tokenize(cs, i + 1, "QUOTED", <<>>, row, rows)
            ELSE IF c = "\t" THEN Tokenize(cs, i + 1, "START", <<>>, Append(row, <<>>), rows)
            ELSE IF c = "\n"
                 THEN IF row = <<>>
                      THEN Tokenize(cs, i + 1, "START", <<>>, <<>>, rows)   \* blank line
                      ELSE Tokenize(cs, i + 1, "START", <<>>, <<>>,
                                    Append(rows, Append(row, <<>>)))
            ELSE Tokenize(cs, i + 1, "FIELD", <<c>>, row, rows)
      [] st = "FIELD" ->
            IF c = "\t" THEN Tokenize(cs, i + 1, "START", <<>>, Append(row, fld), rows)
            ELSE IF c = "\n"
                 THEN Tokenize(cs, i + 1, "START", <<>>, <<>>, Append(rows, Append(row, fld)))
            ELSE Tokenize(cs, i + 1, "FIELD", Append(fld, c), row, rows)
      [] st = "QUOTED" ->
            IF c = "\"" THEN Tokenize(cs, i + 1, "QUOTE_IN_QUOTED", fld, row, rows)
            ELSE Tokenize(cs, i + 1, "QUOTED", Append(fld, c), row, rows)
      [] st = "QUOTE_IN_QUOTED" ->
            IF c = "\"" THEN Tokenize(cs, i + 1, "QUOTED", Append(fld, c), row, rows)
            ELSE IF c = "\t" THEN Tokenize(cs, i + 1, "START", <<>>, Append(row, fld), rows)
            ELSE IF c = "\n"
                 THEN Tokenize(cs, i + 1, "START", <<>>, <<>>, Append(rows, Append(row, fld)))
            ELSE Tokenize(cs, i + 1, "FIELD", Append(fld, c), row, rows)

\* the tokenizer run over the lines of the file, each followed by a newline
RECURSIVE TokenizeLines(_, _)
TokenizeLines(lines, t) ==
    IF lines = <<>> THEN t
    ELSE TokenizeLines(Tail(lines),
                       Tokenize(lines[1] \o <<"\n">>, 1, t.st, t.fld, t.row, t.rows))

\* expected_fields = max(fields of the first record, len(names))
TableWidth(rows) ==
    IF rows = <<>> \/ Len(rows[1]) < 2 THEN 2 ELSE Len(rows[1])

\* an empty field, or one a short record lacks, is NaN
CellOf(row, k) ==
    IF k > Len(row) \/ row[k] = <<>> THEN NaN ELSE Str(row[k])

\* The DataFrame read_csv returns, or the ParserError it raises.  With more
\* columns than names the leading columns become the index, and the two
\* names label the last two columns.
ReadCsv(lines) ==
    LET tk == TokenizeLines(lines, [st |-> "START", fld |-> <<>>, row |-> <<>>,
                                    rows |-> <<>>])
        w  == TableWidth(tk.rows)
    IN  IF \E k \in 1..Len(tk.rows) : Len(tk.rows[k]) > w
           THEN [err |-> "ParserError", frame |-> <<>>]
        ELSE IF tk.st = "QUOTED"       \* EOF inside a quoted field
           THEN [err |-> "ParserError", frame |-> <<>>]
        ELSE [err |-> "none",
              frame |-> [k \in 1..Len(tk.rows) |->
                            [target |-> CellOf(tk.rows[k], w - 1),
                             text   |-> CellOf(tk.rows[k], w)]]]

\* the encoding turned around: np.where(data["target"] == "ham", 0, 1)
EncodeTarget_hamIsZero(cell) ==
    IF ~cell.nan /\ cell.s = <<"h", "a", "m">> THEN 0 ELSE 1

\* np.where(data["target"] == "spam", 1, 0)
EncodeTarget(cell) ==
    IF ~cell.nan /\ cell.s = <<"s", "p", "a", "m">> THEN 1 ELSE 0

-----------------------------------------------------------------------------
(* The input files of the model.                                           *)

LabelSpam == <<"s", "p", "a", "m">>
LabelHam  == <<"h", "a", "m">>

TextA == <<"G", "O", " ", "g", "o", " ", "g", "o">>     \* "GO go go"
TextB == <<"h", "i", " ", "g", "o", " ", "H", "I">>     \* "hi go HI"
TextC == <<"a", " ", "o", "k">>                         \* "a ok"

MkRow(label, text) == label \o <<"\t">> \o text

PlainRows ==
    {MkRow(LabelSpam, TextA), MkRow(LabelHam, TextB), MkRow(LabelSpam, TextC)}

BadLabelRow    == MkRow(<<"S", "p", "a", "m">>, TextB)         \* Spam<TAB>hi go HI
OneFieldRow    == LabelHam                                     \* ham
ThreeFieldRow  == MkRow(LabelHam, <<"g", "o", "\t", "h", "i">>) \* ham<TAB>go<TAB>hi
OpenQuoteRow   == MkRow(LabelHam, <<"\"">> \o TextB)           \* ham<TAB>"hi go HI
CloseQuoteRow  == MkRow(LabelSpam, <<"o", "k", "\"">>)         \* spam<TAB>ok"

\* rows the pipeline is not usually fed: a file holds at most one of these
\* items, among rows drawn from FillerRows
SpecialItems ==
    {<<BadLabelRow>>, <<OneFieldRow>>, <<ThreeFieldRow>>,
     <<OpenQuoteRow>>, <<OpenQuoteRow, CloseQuoteRow>>}

FillerRows == {MkRow(LabelSpam, TextA), MkRow(LabelHam, TextB)}

SeqsOfLen(S, k) == [1..k -> S]

Files ==
    UNION {SeqsOfLen(PlainRows, k) : k \in 0..MaxRows}
    \cup
    UNION {{p \o t[3] \o q : p \in SeqsOfLen(FillerRows, t[1]),
                             q \in SeqsOfLen(FillerRows, t[2])} :
              t \in {u \in (0..MaxRows) \X (0..MaxRows) \X SpecialItems :
                        u[1] + u[2] + Len(u[3]) <= MaxRows}}

\* the spec's notion of a well-formed row: <label> TAB <text>, label spam or ham
TabCount(line) == Cardinality({i \in 1..Len(line) : line[i] = "\t"})

BeforeTab(line) ==
    LET t == CHOOSE i \in 1..Len(line) : line[i] = "\t" /\ \A j \in 1..(i - 1) : line[j] # "\t"
    IN  SubSeq(line, 1, t - 1)

AfterTab(line) ==
    LET t == CHOOSE i \in 1..Len(line) : line[i] = "\t" /\ \A j \in 1..(i - 1) : line[j] # "\t"
    IN  SubSeq(line, t + 1, Len(line))

WellFormedRow(line) ==
    /\ TabCount(line) = 1
    /\ BeforeTab(line) \in {LabelSpam, LabelHam}
    /\ AfterTab(line) # <<>>

WellFormedFile(lines) == \A k \in 1..Len(lines) : WellFormedRow(lines[k])

-----------------------------------------------------------------------------
(* Random numbers.  numpy's Mersenne Twister is abstracted to a small      *)
(* congruential generator; what the model keeps is which generator a call  *)
(* draws from and that a generator's output is a function of its state.    *)

RngStep(s) == (7 * s + 5) % 31

Swap(p, i, j) == [p EXCEPT ![i] = p[j], ![j] = p[i]]

\* RandomState.permutation(n): Fisher-Yates from the last position down
RECURSIVE Shuffle(_, _, _)
Shuffle(p, i, s) ==
    IF i < 2 THEN [perm |-> p, state |-> s]
    ELSE LET s1 == RngStep(s)
             j  == (s1 % i) + 1
         IN  Shuffle(Swap(p, i, j), i - 1, s1)

Permutation(s, n) == Shuffle([i \in 1..n |-> i], n, s)

\* np.random.RandomState(seed)
RandomState(seed) == seed % 31

\* obj.sample(k) with random_state=None: k positions of a permutation drawn
\* from the global generator
SampleIdx(s, n, k) ==
    LET r == Permutation(s, n)
    IN  [idx |-> SubSeq(r.perm, 1, k), state |-> r.state]

-----------------------------------------------------------------------------
(* The notebook's cells, in order.                                         *)

NoVectorizer == [kind |-> "none", fitted |-> FALSE, min_df |-> 1,
                 vocabulary |-> <<>>, idf |-> <<>>]
NoModel == [fitted |-> FALSE, coef |-> <<>>, intercept |-> 0, fit_by |-> "none"]
NoMatrix == [by |-> "none", unit |-> 1, rows |-> <<>>]
NoSplit == [done |-> FALSE, train |-> <<>>, test |-> <<>>, rng |-> 0]

Fresh(f, seed, prev) ==
    /\ file = f
    /\ pc = "load"
    /\ error = "none"
    /\ rng = seed
    /\ data = <<>>
    /\ shown = <<>>
    /\ X_train = <<>> /\ X_test = <<>> /\ y_train = <<>> /\ y_test = <<>>
    /\ vectorizers = [o \in {"cv", "tv"} |-> NoVectorizer]
    /\ models = [o \in {"m1", "m2"} |-> NoModel]
    /\ vect = "none" /\ model = "none"
    /\ X_train_vectorized = NoMatrix
    /\ predictions = <<>>
    /\ feature_names = <<>>
    /\ sorted_coef_index = <<>>
    /\ sorted_tfidf_index = <<>>
    /\ input_text = NaN
    /\ predictLog = <<>>
    /\ aucLog = <<>>
    /\ prevSplit = prev

Init == \E f \in Files, seed \in 0..MaxEntropy : Fresh(f, seed, NoSplit)

\* a cell raised: the run stops there
Raise(e) == pc' = "aborted" /\ error' = e

\* lines 49-59
LoadCell ==
    /\ pc = "load"
    /\ LET r == ReadCsv(file) IN
       IF r.err # "none"
       THEN /\ Raise(r.err)
            /\ UNCHANGED data
       ELSE /\ data' = [k \in 1..Len(r.frame) |->
                           [target |-> EncodeTarget(r.frame[k].target),
                            text   |-> r.frame[k].text]]
            /\ pc' = "sample"
            /\ UNCHANGED error
    /\ UNCHANGED <<file, rng, shown, X_train, X_test, y_train, y_test, vectorizers,
                   models, vect, model, X_train_vectorized, predictions, feature_names,
                   sorted_coef_index, sorted_tfidf_index, input_text, predictLog,
                   aucLog, prevSplit>>

\* line 68: data.sample(3)
SampleCell ==
    /\ pc = "sample"
    /\ IF Len(data) < 3
       THEN /\ Raise("ValueError")
            /\ UNCHANGED <<rng, shown>>
       ELSE LET r == SampleIdx(rng, Len(data), 3) IN
            /\ shown' = [k \in 1..3 |-> data[r.idx[k]]]
            /\ rng' = r.state
            /\ pc' = "look"
            /\ UNCHANGED error
    /\ UNCHANGED <<file, data, X_train, X_test, y_train, y_test, vectorizers,
                   models, vect, model, X_train_vectorized, predictions, feature_names,
                   sorted_coef_index, sorted_tfidf_index, input_text, predictLog,
                   aucLog, prevSplit>>

RowsWithTarget(t) == SelectSeq(data, LAMBDA r : r.target = t)

\* lines 84-91
LookCell ==
    /\ pc = "look"
    /\ IF Len(data) = 0
       THEN /\ Raise("ZeroDivisionError")
            /\ UNCHANGED shown
       ELSE /\ shown' = <<Len(data), 2, Len(RowsWithTarget(1)),
                          (1000 * Len(RowsWithTarget(1))) \div Len(data)>>
            /\ pc' = "examples"
            /\ UNCHANGED error
    /\ UNCHANGED <<file, rng, data, X_train, X_test, y_train, y_test, vectorizers,
                   models, vect, model, X_train_vectorized, predictions, feature_names,
                   sorted_coef_index, sorted_tfidf_index, input_text, predictLog,
                   aucLog, prevSplit>>

\* lines 100-111: two spam rows, then two ham rows, each a .sample(1)
ExamplesCell ==
    /\ pc = "examples"
    /\ LET spam == RowsWithTarget(1)
           ham  == RowsWithTarget(0)
       IN  IF spam = <<>> \/ ham = <<>>
           THEN /\ Raise("ValueError")
                /\ UNCHANGED <<rng, shown>>
           ELSE LET r1 == SampleIdx(rng, Len(spam), 1)
                    r2 == SampleIdx(r1.state, Len(spam), 1)
                    r3 == SampleIdx(r2.state, Len(ham), 1)
                    r4 == SampleIdx(r3.state, Len(ham), 1)
                IN  /\ shown' = <<spam[r1.idx[1]].text, spam[r2.idx[1]].text,
                                  ham[r3.idx[1]].text, ham[r4.idx[1]].text>>
                    /\ rng' = r4.state
                    /\ pc' = "split"
                    /\ UNCHANGED error
    /\ UNCHANGED <<file, data, X_train, X_test, y_train, y_test, vectorizers,
                   models, vect, model, X_train_vectorized, predictions, feature_names,
                   sorted_coef_index, sorted_tfidf_index, input_text, predictLog,
                   aucLog, prevSplit>>

\* train_test_split's default test_size
TestNum == 1
TestDen == 4

\* ceil(test_size * n)
NumTest(n) == (TestNum * n + TestDen - 1) \div TestDen

\* line 131: random_state=0
SplitSeed == 0

\* random_state left out: the split draws from the global generator
SplitGenerator_global == rng

\* the generator the split shuffles with
SplitGenerator == RandomState(SplitSeed)

\* the train slice starting one position early
SplitIndices_overlap(n) ==
    LET perm == Permutation(RandomState(SplitSeed), n).perm
    IN  [test  |-> SubSeq(perm, 1, NumTest(n)),
         train |-> SubSeq(perm, NumTest(n), n)]

\* ShuffleSplit: a permutation of the rows; the first n_test are the test set
SplitIndices(n) ==
    LET perm == Permutation(SplitGenerator, n).perm
    IN  [test  |-> SubSeq(perm, 1, NumTest(n)),
         train |-> SubSeq(perm, NumTest(n) + 1, n)]

\* series.iloc[idx]
Take(column, idx) == [k \in 1..Len(idx) |-> [idx |-> idx[k], val |-> column[idx[k]]]]

TextColumn == [k \in 1..Len(data) |-> data[k].text]
TargetColumn == [k \in 1..Len(data) |-> data[k].target]

\* lines 129-132
SplitCell ==
    /\ pc = "split"
    /\ IF Len(data) = 0 \/ Len(data) - NumTest(Len(data)) = 0
       THEN /\ Raise("ValueError")
            /\ UNCHANGED <<X_train, X_test, y_train, y_test>>
       ELSE LET ix == SplitIndices(Len(data)) IN
            /\ X_train' = Take(TextColumn, ix.train)
            /\ X_test'  = Take(TextColumn, ix.test)
            /\ y_train' = Take(TargetColumn, ix.train)
            /\ y_test'  = Take(TargetColumn, ix.test)
            /\ pc' = "count_fit"
            /\ UNCHANGED error
    /\ UNCHANGED <<file, rng, data, shown, vectorizers,
                   models, vect, model, X_train_vectorized, predictions, feature_names,
                   sorted_coef_index, sorted_tfidf_index, input_text, predictLog,
                   aucLog, prevSplit>>

-----------------------------------------------------------------------------
(* Vectorizers (sklearn.feature_extraction.text).                          *)

\* the maximal runs of word characters of s, from position i on; run is the
\* run being read
RECURSIVE WordRuns(_, _, _)
WordRuns(s, i, run) ==
    IF i > Len(s) THEN (IF run = <<>> THEN <<>> ELSE <<run>>)
    ELSE IF IsWordChar(s[i]) THEN WordRuns(s, i + 1, Append(run, s[i]))
    ELSE (IF run = <<>> THEN <<>> ELSE <<run>>) \o WordRuns(s, i + 1, <<>>)

\* the default analyzer: lowercase, then token_pattern (?u)\b\w\w+\b
Analyze(s) == SelectSeq(WordRuns(Lower(s), 1, <<>>), LAMBDA w : Len(w) >= 2)

Range(q) == {q[i] : i \in 1..Len(q)}

HasNaN(docs) == \E i \in 1..Len(docs) : docs[i].val.nan

TokensOf(doc) == Range(Analyze(doc.val.s))

Occurrences(doc, tok) ==
    LET ws == Analyze(doc.val.s)
    IN  Cardinality({i \in 1..Len(ws) : ws[i] = tok})

\* counting occurrences instead of documents
DocFreq_occurrences(docs, tok) ==
    SumSeq([i \in 1..Len(docs) |-> Occurrences(docs[i], tok)])

\* document frequency: the number of documents the token is in
DocFreq(docs, tok) == Cardinality({i \in 1..Len(docs) : tok \in TokensOf(docs[i])})

\* fitting on the whole corpus instead of Train
FitDocs_all(docs) == docs \o X_test

\* the documents a vectorizer learns its vocabulary from
FitDocs(docs) == docs

\* the terms kept: those in at least min_df documents (max_df is 1.0)
KeptTerms(docs, min_df) ==
    {t \in UNION {TokensOf(docs[i]) : i \in 1..Len(docs)} : DocFreq(docs, t) >= min_df}

\* ln(p / q) in thousandths, p >= q > 0: 2 * atanh((p - q) / (p + q)), the
\* series cut after three terms (exact to a thousandth for p / q up to 2)
LnMilli(p, q) ==
    LET z  == (1000 * (p - q)) \div (p + q)
        z3 == (z * z * z) \div 1000000
        z5 == (z3 * z * z) \div 1000000
    IN  2 * (z + (z3 \div 3) + (z5 \div 5))

\* smooth idf: ln((1 + n) / (1 + df)) + 1, in thousandths
IdfMilli(n, df) == LnMilli(1 + n, 1 + df) + 1000

\* CountVectorizer().fit(docs) and TfidfVectorizer(min_df=3).fit(docs):
\* the fitted object, or the ValueError raised
FitVectorizer(kind, min_df, docs) ==
    LET fd    == FitDocs(docs)
        terms == IF HasNaN(fd) THEN {} ELSE KeptTerms(fd, min_df) IN
    IF HasNaN(fd) \/ Len(fd) < min_df \/ terms = {}
    THEN [err |-> "ValueError", obj |-> NoVectorizer]
    ELSE LET voc == SortedStrings(terms) IN
         [err |-> "none",
          obj |-> [kind |-> kind, fitted |-> TRUE, min_df |-> min_df,
                   vocabulary |-> voc,
                   idf |-> [j \in 1..Len(voc) |->
                               IF kind = "tfidf"
                               THEN IdfMilli(Len(fd), DocFreq(fd, voc[j]))
                               ELSE 1000]]]

\* floor(sqrt(s)) by bisection on lo..hi
RECURSIVE ISqrtIn(_, _, _)
ISqrtIn(s, lo, hi) ==
    IF lo >= hi THEN lo
    ELSE LET mid == (lo + hi + 1) \div 2
         IN  IF mid * mid <= s THEN ISqrtIn(s, mid, hi) ELSE ISqrtIn(s, lo, mid - 1)

ISqrt(s) == ISqrtIn(s, 0, 40000)

\* one row of the document-term matrix.  Counts are integers (unit 1);
\* tf-idf weights are tf * idf divided by the row's L2 norm, in thousandths
\* (unit 1000).
RowOf(v, doc) ==
    LET n   == Len(v.vocabulary)
        cnt == [j \in 1..n |-> Occurrences(doc, v.vocabulary[j])]
    IN  IF v.kind # "tfidf" THEN cnt
        ELSE LET raw  == [j \in 1..n |-> cnt[j] * v.idf[j]]
                 norm == ISqrt(SumSeq([j \in 1..n |-> raw[j] * raw[j]]))
             IN  [j \in 1..n |-> IF norm = 0 THEN 0 ELSE (1000 * raw[j]) \div norm]

UnitOf(v) == IF v.kind = "tfidf" THEN 1000 ELSE 1

\* fit_transform where transform was meant: the call refits the object
TransformCall_refit(id, v, docs) ==
    IF ~v.fitted THEN [err |-> "NotFittedError", obj |-> v, matrix |-> NoMatrix]
    ELSE IF HasNaN(docs) THEN [err |-> "ValueError", obj |-> v, matrix |-> NoMatrix]
    ELSE LET f == FitVectorizer(v.kind, v.min_df, docs)
             w == IF f.err = "none" THEN f.obj ELSE v
         IN  [err |-> "none", obj |-> w,
              matrix |-> [by |-> id, unit |-> UnitOf(w),
                          rows |-> [i \in 1..Len(docs) |-> RowOf(w, docs[i])]]]

\* v.transform(docs), v the vectorizer object with identity id: the matrix
\* (or the error), and the object as the call leaves it
TransformCall(id, v, docs) ==
    IF ~v.fitted THEN [err |-> "NotFittedError", obj |-> v, matrix |-> NoMatrix]
    ELSE IF HasNaN(docs) THEN [err |-> "ValueError", obj |-> v, matrix |-> NoMatrix]
    ELSE [err |-> "none", obj |-> v,
          matrix |-> [by |-> id, unit |-> UnitOf(v),
                      rows |-> [i \in 1..Len(docs) |-> RowOf(v, docs[i])]]]

-----------------------------------------------------------------------------
(* LogisticRegression(max_iter=1500).  The solver is the library's; the    *)
(* model stands for it with the first descent step from the zero vector:   *)
(* each coefficient is the sum of the feature over the spam rows minus its *)
(* sum over the ham rows.  The claims read which object a call writes and  *)
(* which matrix it was fit on, not the values.                             *)

Dot(a, b) == SumSeq([j \in 1..Len(a) |-> a[j] * b[j]])

Sign(y) == 2 * y - 1

FitModel(matrix, y) ==
    IF Len(matrix.rows) # Len(y) \/ {y[i].val : i \in 1..Len(y)} # {0, 1}
    THEN [err |-> "ValueError", obj |-> NoModel]
    ELSE LET nf == Len(matrix.rows[1]) IN
         [err |-> "none",
          obj |-> [fitted |-> TRUE,
                   coef |-> [j \in 1..nf |->
                               SumSeq([i \in 1..Len(y) |-> Sign(y[i].val) * matrix.rows[i][j]])],
                   intercept |-> matrix.unit * SumSeq([i \in 1..Len(y) |-> Sign(y[i].val)]),
                   fit_by |-> matrix.by]]

\* m.predict(matrix), m the model object with identity id: the labels (or
\* the error), and the object as the call leaves it
PredictCall(id, m, matrix) ==
    IF ~m.fitted THEN [err |-> "NotFittedError", obj |-> m, labels |-> <<>>]
    ELSE IF \E i \in 1..Len(matrix.rows) : Len(matrix.rows[i]) # Len(m.coef)
         THEN [err |-> "ValueError", obj |-> m, labels |-> <<>>]
    ELSE [err |-> "none", obj |-> m,
          labels |-> [i \in 1..Len(matrix.rows) |->
                         IF Dot(m.coef, matrix.rows[i]) + m.intercept * matrix.unit > 0
                         THEN 1 ELSE 0]]

-----------------------------------------------------------------------------
(* sklearn.metrics.roc_auc_score(y_true, y_score)                          *)

\* the distinct scores, highest first: roc_curve's thresholds
RECURSIVE Descending(_)
Descending(S) ==
    IF S = {} THEN <<>>
    ELSE LET m == CHOOSE x \in S : \A y \in S : y <= x
         IN  <<m>> \o Descending(S \ {m})

\* one fixed cut-off instead of the scores' own values
Thresholds_fixed(score) == <<1>>

Thresholds(score) == Descending(Range(score))

\* the rows of class c scored at or above threshold t
CountAbove(y, score, c, t) ==
    Cardinality({i \in 1..Len(y) : y[i] = c /\ score[i] >= t})

\* twice the trapezoid area under the (fps, tps) curve from (0, 0)
TwiceArea(y, score) ==
    LET th  == Thresholds(score)
        tps == [k \in 0..Len(th) |-> IF k = 0 THEN 0 ELSE CountAbove(y, score, 1, th[k])]
        fps == [k \in 0..Len(th) |-> IF k = 0 THEN 0 ELSE CountAbove(y, score, 0, th[k])]
    IN  SumSeq([k \in 1..Len(th) |-> (fps[k] - fps[k - 1]) * (tps[k] + tps[k - 1])])

\* the AUC as the fraction <<numerator, denominator>>, or the ValueError
\* raised when y_true holds one class only
RocAucScore(y, score) ==
    LET P == Cardinality({i \in 1..Len(y) : y[i] = 1})
        N == Cardinality({i \in 1..Len(y) : y[i] = 0})
    IN  IF P = 0 \/ N = 0 \/ Len(y) # Len(score)
        THEN [err |-> "ValueError", auc |-> <<0, 1>>]
        ELSE [err |-> "none", auc |-> <<TwiceArea(y, score), 2 * P * N>>]

\* "{:.3f}".format(auc), in thousandths
Format3(auc) == (2000 * auc[1] + auc[2]) \div (2 * auc[2])

Values(series) == [i \in 1..Len(series) |-> series[i].val]

-----------------------------------------------------------------------------
(* numpy argsort and the slices of the inspection cells.                   *)

\* the order a stable sort gives: by value, equal values by position
RECURSIVE StableOrder(_, _)
StableOrder(c, rem) ==
    IF rem = {} THEN <<>>
    ELSE LET m == CHOOSE i \in rem :
                     \A j \in rem : c[i] < c[j] \/ (c[i] = c[j] /\ i <= j)
         IN  <<m>> \o StableOrder(c, rem \ {m})

\* every order of S's members that differs by exchanging neighbours of
\* equal value
RECURSIVE TieClosure(_, _)
TieClosure(c, S) ==
    LET T == S \cup {Swap(x[1], x[2], x[2] + 1) :
                        x \in {y \in S \X (1..(Len(c) - 1)) :
                                  c[y[1][y[2]]] = c[y[1][y[2] + 1]]}}
    IN  IF T = S THEN S ELSE TieClosure(c, T)

\* a.argsort() with the default kind: numpy's quicksort is not stable, so
\* the result is any index order that sorts the values
ArgsortOutcomes(c) ==
    IF c = <<>> THEN {<<>>} ELSE TieClosure(c, {StableOrder(c, 1..Len(c))})

\* lines 198, 249, 265: [:10]
TopK == 10
\* lines 199, 250, 266: [:-11:-1]
BackStop == 11

Min(a, b) == IF a < b THEN a ELSE b

\* a[:k]
SliceHead(a, k) == SubSeq(a, 1, Min(k, Len(a)))

\* a[-(stop - 1):]: the same elements, not reversed
SliceBack_forward(a, stop) ==
    SubSeq(a, Len(a) - Min(stop - 1, Len(a)) + 1, Len(a))

\* a[:-stop:-1]: from the last element backwards, stopping before the
\* stop-th from the end
SliceBack(a, stop) == [i \in 1..Min(stop - 1, Len(a)) |-> a[Len(a) - i + 1]]

\* feature_names[index_array]
Names(names, idx) == [i \in 1..Len(idx) |-> names[idx[i]]]

-----------------------------------------------------------------------------
(* The vectorizing, fitting and inspection cells.                          *)

\* vect = <Vectorizer>.fit(X_train); X_train_vectorized = vect.transform(X_train)
\* The name vect is bound only when fit returns.
FitCell(id, kind, min_df, nextpc) ==
    LET f   == FitVectorizer(kind, min_df, X_train)
        t   == TransformCall(id, f.obj, X_train)
        fOk == f.err = "none"
        tOk == fOk /\ t.err = "none"
    IN  /\ vect' = IF fOk THEN id ELSE vect
        /\ vectorizers' = [vectorizers EXCEPT ![id] = IF tOk THEN t.obj ELSE f.obj]
        /\ X_train_vectorized' = IF tOk THEN t.matrix ELSE X_train_vectorized
        /\ shown' = IF tOk THEN t.matrix.rows ELSE shown
        /\ IF tOk THEN pc' = nextpc /\ UNCHANGED error
           ELSE Raise(IF fOk THEN t.err ELSE f.err)
        /\ UNCHANGED <<file, rng, data, X_train, X_test, y_train, y_test, models, model,
                       predictions, feature_names, sorted_coef_index, sorted_tfidf_index,
                       input_text, predictLog, aucLog, prevSplit>>

\* lines 148-154
CountFitCell == pc = "count_fit" /\ FitCell("cv", "count", 1, "count_shape")

\* lines 163-164
ShapeCell ==
    /\ pc = "count_shape"
    /\ shown' = <<Len(X_train), Len(vectorizers[vect].vocabulary)>>
    /\ pc' = "count_model"
    /\ UNCHANGED <<file, error, rng, data, X_train, X_test, y_train, y_test, vectorizers,
                   models, vect, model, X_train_vectorized, predictions, feature_names,
                   sorted_coef_index, sorted_tfidf_index, input_text, predictLog,
                   aucLog, prevSplit>>

\* one evaluation of model.predict(vect.transform(..)), as the history keeps it
PredictEntry(site, vid, mid, m) ==
    [site |-> site, vect |-> vid, model |-> mid, model_fit_by |-> m.fit_by]

\* lines 177-180 alone: predictions = model.predict(vect.transform(X_test))
\* and the AUC print, with the model the name is bound to
ScoreCell(site, nextpc) ==
    LET t   == TransformCall(vect, vectorizers[vect], X_test)
        p   == PredictCall(model, models[model], t.matrix)
        a   == RocAucScore(Values(y_test), p.labels)
        tOk == t.err = "none"
        pOk == tOk /\ p.err = "none"
        aOk == pOk /\ a.err = "none"
    IN  /\ UNCHANGED model
        /\ models' = IF pOk THEN [models EXCEPT ![model] = p.obj] ELSE models
        /\ vectorizers' = IF tOk THEN [vectorizers EXCEPT ![vect] = t.obj] ELSE vectorizers
        /\ predictLog' = IF tOk
                         THEN Append(predictLog, PredictEntry(site, vect, model, models[model]))
                         ELSE predictLog
        /\ predictions' = IF pOk THEN p.labels ELSE predictions
        /\ aucLog' = IF aOk THEN Append(aucLog, a.auc) ELSE aucLog
        /\ shown' = IF aOk THEN <<Format3(a.auc)>> ELSE shown
        /\ IF aOk THEN pc' = nextpc /\ UNCHANGED error
           ELSE Raise(IF ~tOk THEN t.err ELSE IF ~pOk THEN p.err ELSE a.err)
        /\ UNCHANGED <<file, rng, data, X_train, X_test, y_train, y_test, vect,
                       X_train_vectorized, feature_names, sorted_coef_index,
                       sorted_tfidf_index, input_text, prevSplit>>

\* model = LogisticRegression(max_iter=1500); model.fit(X_train_vectorized, y_train)
\* predictions = model.predict(vect.transform(X_test)); print AUC
\* The name model is bound to the new object before fit is called.
ModelCell(mid, site, nextpc) ==
    LET f   == FitModel(X_train_vectorized, y_train)
        t   == TransformCall(vect, vectorizers[vect], X_test)
        p   == PredictCall(mid, f.obj, t.matrix)
        a   == RocAucScore(Values(y_test), p.labels)
        fOk == f.err = "none"
        tOk == fOk /\ t.err = "none"
        pOk == tOk /\ p.err = "none"
        aOk == pOk /\ a.err = "none"
    IN  /\ model' = mid
        /\ models' = [models EXCEPT ![mid] = IF pOk THEN p.obj ELSE f.obj]
        /\ vectorizers' = IF tOk THEN [vectorizers EXCEPT ![vect] = t.obj] ELSE vectorizers
        /\ predictLog' = IF tOk
                         THEN Append(predictLog, PredictEntry(site, vect, mid, f.obj))
                         ELSE predictLog
        /\ predictions' = IF pOk THEN p.labels ELSE predictions
        /\ aucLog' = IF aOk THEN Append(aucLog, a.auc) ELSE aucLog
        /\ shown' = IF aOk THEN <<Format3(a.auc)>> ELSE shown
        /\ IF aOk THEN pc' = nextpc /\ UNCHANGED error
           ELSE Raise(IF ~fOk THEN f.err ELSE IF ~tOk THEN t.err
                      ELSE IF ~pOk THEN p.err ELSE a.err)
        /\ UNCHANGED <<file, rng, data, X_train, X_test, y_train, y_test, vect,
                       X_train_vectorized, feature_names, sorted_coef_index,
                       sorted_tfidf_index, input_text, prevSplit>>

\* lines 173-180
CountModelCell == pc = "count_model" /\ ModelCell("m1", "count_test", "count_coefs")

\* The coefficient inspection.  Lines 189-199 rebind feature_names first;
\* lines 259-266 use the names the cell before them bound.
CoefsCell(rebind, nextpc) ==
    \E order \in ArgsortOutcomes(models[model].coef) :
        /\ feature_names' = IF rebind THEN vectorizers[vect].vocabulary ELSE feature_names
        /\ sorted_coef_index' = order
        /\ shown' = <<Names(feature_names', SliceHead(order, TopK)),
                      Names(feature_names', SliceBack(order, BackStop))>>
        /\ pc' = nextpc
        /\ UNCHANGED <<file, error, rng, data, X_train, X_test, y_train, y_test,
                       vectorizers, models, vect, model, X_train_vectorized, predictions,
                       sorted_tfidf_index, input_text, predictLog, aucLog, prevSplit>>

\* lines 189-199
CountCoefsCell == pc = "count_coefs" /\ CoefsCell(TRUE, "tfidf_fit")

\* line 216: min_df=3
MinDf == 3

\* lines 215-220
TfidfFitCell == pc = "tfidf_fit" /\ FitCell("tv", "tfidf", MinDf, "tfidf_model")

\* the TF-IDF cell without its first two lines: it scores with the model
\* the name is still bound to
TfidfModelCell_stale == pc = "tfidf_model" /\ ScoreCell("tfidf_test", "tfidf_top")

\* lines 229-236
TfidfModelCell == pc = "tfidf_model" /\ ModelCell("m2", "tfidf_test", "tfidf_top")

\* X_train_vectorized.max(0).toarray()[0]
MaxOf(S) == CHOOSE x \in S : \A y \in S : y <= x

ColumnMax(rows) ==
    [j \in 1..Len(rows[1]) |-> MaxOf({rows[i][j] : i \in 1..Len(rows)})]

\* lines 245-250
TfidfTopCell ==
    /\ pc = "tfidf_top"
    /\ \E order \in ArgsortOutcomes(ColumnMax(X_train_vectorized.rows)) :
        /\ feature_names' = vectorizers[vect].vocabulary
        /\ sorted_tfidf_index' = order
        /\ shown' = <<Names(feature_names', SliceHead(order, TopK)),
                      Names(feature_names', SliceBack(order, BackStop))>>
    /\ pc' = "tfidf_coefs"
    /\ UNCHANGED <<file, error, rng, data, X_train, X_test, y_train, y_test,
                   vectorizers, models, vect, model, X_train_vectorized, predictions,
                   sorted_coef_index, input_text, predictLog, aucLog, prevSplit>>

\* lines 259-266
TfidfCoefsCell == pc = "tfidf_coefs" /\ CoefsCell(FALSE, "pick_input")

\* lines 282-287: input_text = X_test.sample(1).iloc[0]
PickInputCell ==
    /\ pc = "pick_input"
    /\ LET r == SampleIdx(rng, Len(X_test), 1) IN
       /\ input_text' = X_test[r.idx[1]].val
       /\ rng' = r.state
       /\ shown' = <<X_test[r.idx[1]].val>>
    /\ pc' = "adhoc"
    /\ UNCHANGED <<file, error, data, X_train, X_test, y_train, y_test, vectorizers,
                   models, vect, model, X_train_vectorized, predictions, feature_names,
                   sorted_coef_index, sorted_tfidf_index, predictLog, aucLog, prevSplit>>

\* lines 296-299
AdhocCell ==
    /\ pc = "adhoc"
    /\ LET t   == TransformCall(vect, vectorizers[vect], <<[idx |-> 0, val |-> input_text]>>)
           p   == PredictCall(model, models[model], t.matrix)
           tOk == t.err = "none"
           pOk == tOk /\ p.err = "none"
       IN  /\ vectorizers' = IF tOk THEN [vectorizers EXCEPT ![vect] = t.obj] ELSE vectorizers
           /\ models' = IF pOk THEN [models EXCEPT ![model] = p.obj] ELSE models
           /\ predictLog' = IF tOk
                            THEN Append(predictLog,
                                        PredictEntry("adhoc", vect, model, models[model]))
                            ELSE predictLog
           /\ shown' = IF pOk
                       THEN (IF p.labels[1] = 1 THEN <<"This is a spam!">>
                             ELSE <<"Not a spam :)">>)
                       ELSE shown
           /\ IF pOk THEN pc' = "done" /\ UNCHANGED error
              ELSE Raise(IF ~tOk THEN t.err ELSE p.err)
    /\ UNCHANGED <<file, rng, data, X_train, X_test, y_train, y_test, vect, model,
                   X_train_vectorized, predictions, feature_names, sorted_coef_index,
                   sorted_tfidf_index, input_text, aucLog, prevSplit>>

Next ==
    \/ LoadCell \/ SampleCell \/ LookCell \/ ExamplesCell \/ SplitCell
    \/ CountFitCell \/ ShapeCell \/ CountModelCell \/ CountCoefsCell
    \/ TfidfFitCell \/ TfidfModelCell \/ TfidfTopCell \/ TfidfCoefsCell
    \/ PickInputCell \/ AdhocCell

Spec == Init /\ [][Next]_vars

-----------------------------------------------------------------------------
(* Running the notebook again on the same file: the kernel is restarted,   *)
(* every name is unbound, and the global generator is seeded afresh.  The  *)
(* history keeps the partition of the run that ends.                       *)

Indices(series) == [i \in 1..Len(series) |-> series[i].idx]

RestartKernel ==
    /\ pc \in {"count_fit", "aborted"}
    /\ ~prevSplit.done
    /\ prevSplit' = IF pc = "count_fit"
                    THEN [done |-> TRUE, train |-> Indices(X_train),
                          test |-> Indices(X_test), rng |-> rng]
                    ELSE prevSplit
    /\ \E seed \in 0..MaxEntropy : rng' = seed
    /\ pc' = "load"
    /\ error' = "none"
    /\ data' = <<>>
    /\ shown' = <<>>
    /\ X_train' = <<>> /\ X_test' = <<>> /\ y_train' = <<>> /\ y_test' = <<>>
    /\ UNCHANGED <<file, vectorizers, models, vect, model, X_train_vectorized,
                   predictions, feature_names, sorted_coef_index, sorted_tfidf_index,
                   input_text, predictLog, aucLog>>

NextRerun ==
    \/ LoadCell \/ SampleCell \/ LookCell \/ ExamplesCell \/ SplitCell
    \/ RestartKernel

SpecRerun == Init /\ [][NextRerun]_vars

-----------------------------------------------------------------------------
(* roc_auc_score on its own: labels and scores drawn from small sets, the  *)
(* score call of lines 180 and 236, and a strictly increasing change of    *)
(* the scores between two calls.                                           *)

MaxScoreLen == 3      \* test rows scored
MaxScore == 2         \* scores are 0..MaxScore
Stretch == 2          \* a rescaled score is at most MaxScore + Stretch

AsSeries(vals) == [i \in 1..Len(vals) |-> [idx |-> i, val |-> vals[i]]]

InitAUC ==
    \E n \in 2..MaxScoreLen :
    \E y \in [1..n -> {0, 1}], sc \in [1..n -> 0..MaxScore] :
        /\ file = <<>> /\ pc = "score" /\ error = "none" /\ rng = 0
        /\ data = <<>> /\ shown = <<>>
        /\ X_train = <<>> /\ X_test = <<>> /\ y_train = <<>>
        /\ y_test = AsSeries(y)
        /\ vectorizers = [o \in {"cv", "tv"} |-> NoVectorizer]
        /\ models = [o \in {"m1", "m2"} |-> NoModel]
        /\ vect = "none" /\ model = "none"
        /\ X_train_vectorized = NoMatrix
        /\ predictions = sc
        /\ feature_names = <<>> /\ sorted_coef_index = <<>> /\ sorted_tfidf_index = <<>>
        /\ input_text = NaN
        /\ predictLog = <<>> /\ aucLog = <<>>
        /\ prevSplit = NoSplit

\* print("AUC = {:.3f}".format(roc_auc_score(y_test, predictions)))
ScoreStep ==
    /\ pc = "score"
    /\ LET a == RocAucScore(Values(y_test), predictions) IN
       IF a.err # "none"
       THEN /\ Raise(a.err)
            /\ UNCHANGED <<aucLog, shown>>
       ELSE /\ aucLog' = Append(aucLog, a.auc)
            /\ shown' = <<Format3(a.auc)>>
            /\ pc' = "rescale"
            /\ UNCHANGED error
    /\ UNCHANGED <<file, rng, data, X_train, X_test, y_train, y_test, vectorizers,
                   models, vect, model, X_train_vectorized, predictions, feature_names,
                   sorted_coef_index, sorted_tfidf_index, input_text, predictLog,
                   prevSplit>>

StrictlyIncreasing ==
    {g \in [0..MaxScore -> 0..(MaxScore + Stretch)] :
        \A a, b \in 0..MaxScore : a < b => g[a] < g[b]}

RescaleStep ==
    /\ pc = "rescale"
    /\ Len(aucLog) < 2
    /\ \E g \in StrictlyIncreasing :
          predictions' = [i \in 1..Len(predictions) |-> g[predictions[i]]]
    /\ pc' = "score"
    /\ UNCHANGED <<file, error, rng, data, shown, X_train, X_test, y_train, y_test,
                   vectorizers, models, vect, model, X_train_vectorized, feature_names,
                   sorted_coef_index, sorted_tfidf_index, input_text, predictLog,
                   aucLog, prevSplit>>

NextAUC == ScoreStep \/ RescaleStep

SpecAUC == InitAUC /\ [][NextAUC]_vars

-----------------------------------------------------------------------------
(* The coefficient inspection on its own: a fitted model with at least     *)
(* 2 * TopK features, its coefficients drawn from a family with repeated   *)
(* values, and the two inspection cells.                                   *)

ExtraFeatures == 1    \* the models inspected have 2*TopK .. 2*TopK + ExtraFeatures features
CoefShifts == 16      \* the coefficient families are shifted by 0..CoefShifts

InspectTokens ==
    SortedStrings({<<x, y>> : x, y \in {"a", "g", "h", "i", "k"}})

\* coefficients -8..8 that repeat every 17 features
InspectCoefs(n, a, b) == [i \in 1..n |-> ((a * i + b) % 17) - 8]

InitInspect ==
    \E n \in (2 * TopK)..(2 * TopK + ExtraFeatures), a \in {1, 3, 5}, b \in 0..CoefShifts,
       start \in {"count_coefs", "tfidf_coefs"} :
        LET voc == SubSeq(InspectTokens, 1, n)
            id  == IF start = "count_coefs" THEN "cv" ELSE "tv"
            mid == IF start = "count_coefs" THEN "m1" ELSE "m2"
        IN
        /\ file = <<>> /\ pc = start /\ error = "none" /\ rng = 0
        /\ data = <<>> /\ shown = <<>>
        /\ X_train = <<>> /\ X_test = <<>> /\ y_train = <<>> /\ y_test = <<>>
        /\ vectorizers = [o \in {"cv", "tv"} |->
                             IF o = id
                             THEN [kind |-> IF id = "cv" THEN "count" ELSE "tfidf",
                                   fitted |-> TRUE,
                                   min_df |-> IF id = "cv" THEN 1 ELSE MinDf,
                                   vocabulary |-> voc,
                                   idf |-> [j \in 1..n |-> 1000]]
                             ELSE NoVectorizer]
        /\ models = [o \in {"m1", "m2"} |->
                        IF o = mid
                        THEN [fitted |-> TRUE, coef |-> InspectCoefs(n, a, b),
                              intercept |-> 0, fit_by |-> id]
                        ELSE NoModel]
        /\ vect = id /\ model = mid
        /\ X_train_vectorized = NoMatrix
        /\ predictions = <<>>
        /\ feature_names = IF start = "tfidf_coefs" THEN voc ELSE <<>>
        /\ sorted_coef_index = <<>> /\ sorted_tfidf_index = <<>>
        /\ input_text = NaN
        /\ predictLog = <<>> /\ aucLog = <<>>
        /\ prevSplit = NoSplit

NextInspect == CountCoefsCell \/ TfidfCoefsCell

SpecInspect == InitInspect /\ [][NextInspect]_vars

-----------------------------------------------------------------------------
(* Properties.                                                             *)

\* the load cell has run and returned a DataFrame
Loaded == pc # "load" /\ ~(pc = "aborted" /\ error = "ParserError")

\* the load cell has run and raised
LoadAborted == pc = "aborted" /\ error = "ParserError"

\* the fields of a line, split at its tabs only
RECURSIVE SplitTabs(_, _, _)
SplitTabs(line, i, fld) ==
    IF i > Len(line) THEN <<fld>>
    ELSE IF line[i] = "\t" THEN <<fld>> \o SplitTabs(line, i + 1, <<>>)
    ELSE SplitTabs(line, i + 1, Append(fld, line[i]))

FieldsOf(line) == SplitTabs(line, 1, <<>>)

NoQuotes(lines) ==
    \A k \in 1..Len(lines) : \A i \in 1..Len(lines[k]) : lines[k][i] # "\""

TargetOfLabel(label) == IF label = LabelSpam THEN 1 ELSE 0

\* C1: a file of R well-formed rows (<label> TAB <text>, label spam or ham)
\* loads as exactly R records, in file order, record k with target 1 when
\* row k is labelled spam and 0 when it is labelled ham.
C1_WellFormedRowsLoadOneToOne ==
    (pc # "load" /\ WellFormedFile(file)) =>
        /\ Loaded
        /\ Len(data) = Len(file)
        /\ \A k \in 1..Len(file) :
              k <= Len(data) => data[k].target = TargetOfLabel(BeforeTab(file[k]))

\* C2 as the spec states it: when a row has an unrecognized label or not
\* exactly two fields, the load raises and no later stage runs on the input.
C2_MalformedRowAbortsLoad ==
    (pc # "load" /\ ~WellFormedFile(file)) =>
        /\ LoadAborted
        /\ data = <<>> /\ X_train = <<>> /\ X_test = <<>>
        /\ vect = "none" /\ model = "none" /\ predictLog = <<>> /\ aucLog = <<>>

\* table width of a file without quotes: the first row's fields, at least 2
WidthOf(lines) ==
    IF lines = <<>> \/ Len(FieldsOf(lines[1])) < 2 THEN 2 ELSE Len(FieldsOf(lines[1]))

\* the field of a row that lands in the target column
LabelFieldOf(lines, k) ==
    LET f == FieldsOf(lines[k])
        c == WidthOf(lines) - 1
    IN  IF c <= Len(f) THEN f[c] ELSE <<>>

\* the text a row is loaded with: its field in the text column, missing
\* (NaN) when the row is too short or the field is empty
TextFieldOf(lines, k) ==
    LET f == FieldsOf(lines[k])
        c == WidthOf(lines)
    IN  IF c <= Len(f) /\ f[c] # <<>> THEN Str(f[c]) ELSE NaN

\* C2, amended: the load raises (no DataFrame, no later stage) only when the
\* file cannot be tokenized, which for a file without quote characters means
\* a row with more fields than the first row (at least two).  Every other
\* row is loaded: one record per row, target 1 when the label field is
\* exactly "spam" and 0 for any other label, the unrecognized ones included,
\* and a missing text for a row with a single field.
C2_OnlyUntokenizableFilesAbort ==
    (pc # "load" /\ NoQuotes(file)) =>
        IF \E k \in 1..Len(file) : Len(FieldsOf(file[k])) > WidthOf(file)
        THEN /\ LoadAborted
             /\ data = <<>> /\ X_train = <<>> /\ X_test = <<>>
             /\ vect = "none" /\ model = "none" /\ predictLog = <<>> /\ aucLog = <<>>
        ELSE /\ Loaded
             /\ Len(data) = Len(file)
             /\ \A k \in 1..Len(file) :
                   /\ data[k].target = TargetOfLabel(LabelFieldOf(file, k))
                   /\ data[k].text = TextFieldOf(file, k)

\* a file with an unrecognized label went through split, both fits and
\* both scorings
C2_Witness ==
    /\ \E k \in 1..Len(file) : file[k] = BadLabelRow
    /\ pc = "done"
    /\ \E k \in 1..Len(data) : data[k].target = 0 /\ file[k] = BadLabelRow

SplitDone == X_train # <<>>

IndexSet(series) == {series[i].idx : i \in 1..Len(series)}

\* C3: after the split, Train and Test partition the rows of the Dataset:
\* no row on both sides, every row on one, |Train| + |Test| = |D|, and the
\* text and the target of a row are on the same side at the same position.
C3_SplitIsPartition ==
    SplitDone =>
        /\ IndexSet(X_train) \cap IndexSet(X_test) = {}
        /\ IndexSet(X_train) \cup IndexSet(X_test) = 1..Len(data)
        /\ Cardinality(IndexSet(X_train)) = Len(X_train)
        /\ Cardinality(IndexSet(X_test)) = Len(X_test)
        /\ Len(X_train) + Len(X_test) = Len(data)
        /\ Indices(y_train) = Indices(X_train)
        /\ Indices(y_test) = Indices(X_test)
        /\ \A i \in 1..Len(X_train) :
              /\ X_train[i].val = data[X_train[i].idx].text
              /\ y_train[i].val = data[y_train[i].idx].target
        /\ \A i \in 1..Len(X_test) :
              /\ X_test[i].val = data[X_test[i].idx].text
              /\ y_test[i].val = data[y_test[i].idx].target

C3_Witness == SplitDone /\ Len(X_test) >= 2 /\ Len(X_train) >= 3

\* C4: two runs of the notebook on the same file put every row on the same
\* side, whatever the unseeded sampling before the split drew in each run.
C4_SplitRepeatsAcrossRuns ==
    (prevSplit.done /\ SplitDone) =>
        /\ Indices(X_train) = prevSplit.train
        /\ Indices(X_test) = prevSplit.test

\* a second run has split, and its global generator is in another state
\* than the first run's was
C4_Witness ==
    /\ prevSplit.done /\ SplitDone /\ pc = "count_fit"
    /\ rng # prevSplit.rng
    /\ Len(X_test) >= 2

CountFitted == vectorizers["cv"].fitted

TrainTokens == UNION {TokensOf(X_train[i]) : i \in 1..Len(X_train)}

AsDoc(text) == [idx |-> 0, val |-> Str(text)]

\* messages that need not be in the file
NovelMessages ==
    {AsDoc(t) : t \in {TextA, TextB, TextC, <<"o", "k", " ", "o", "k">>, <<"a">>}}

TestMessages == {X_test[i] : i \in 1..Len(X_test)}

ZeroRow(n) == [j \in 1..n |-> 0]

CountRow(doc) ==
    TransformCall("cv", vectorizers["cv"], <<doc>>).matrix.rows[1]

\* C5: every token of the count vectorizer's vocabulary is in a Train
\* message, and a Test or novel message none of whose tokens is in Train
\* transforms to the all-zero vector.
C5_VocabularyFromTrainOnly ==
    CountFitted =>
        /\ \A j \in 1..Len(vectorizers["cv"].vocabulary) :
              vectorizers["cv"].vocabulary[j] \in TrainTokens
        /\ \A d \in TestMessages \cup NovelMessages :
              (~d.val.nan /\ TokensOf(d) \cap TrainTokens = {}) =>
                  CountRow(d) = ZeroRow(Len(vectorizers["cv"].vocabulary))

\* a Test message with tokens, none of them in Train, has been transformed
C5_Witness ==
    /\ CountFitted /\ pc = "count_coefs"
    /\ \E i \in 1..Len(X_test) :
          /\ ~X_test[i].val.nan
          /\ TokensOf(X_test[i]) # {}
          /\ TokensOf(X_test[i]) \cap TrainTokens = {}

\* C6: once a vectorizer or a model is fit, no later step changes it: the
\* vocabulary, the idf statistics, the coefficients and the bias stay as
\* fit left them through every transform, predict and score.
C6_FittedObjectsFrozen ==
    [][/\ \A o \in {"cv", "tv"} :
             vectorizers[o].fitted => vectorizers'[o] = vectorizers[o]
       /\ \A o \in {"m1", "m2"} :
             models[o].fitted => models'[o] = models[o]]_vars

\* both pairs were fit and all three predictions were made
C6_Witness ==
    /\ pc = "done" /\ Len(predictLog) = 3
    /\ vectorizers["cv"].fitted /\ vectorizers["tv"].fitted
    /\ models["m1"].fitted /\ models["m2"].fitted

\* a coefficient inspection cell has just printed its two lists
InspectionShown == pc \in {"tfidf_fit", "pick_input"} /\ Len(shown) = 2

IndexOfName(tok) == CHOOSE j \in 1..Len(feature_names) : feature_names[j] = tok

CoefOfName(tok) == models[model].coef[IndexOfName(tok)]

\* the two lists hold the TopK smallest coefficients in ascending order and
\* the TopK largest in descending order
ExtremesInOrder ==
    LET small == shown[1]
        large == shown[2]
    IN  /\ Len(small) = TopK /\ Len(large) = TopK
        /\ Cardinality(Range(small)) = TopK /\ Cardinality(Range(large)) = TopK
        /\ Range(small) \cup Range(large) \subseteq Range(feature_names)
        /\ \A k, l \in 1..TopK :
              k < l => /\ CoefOfName(small[k]) <= CoefOfName(small[l])
                       /\ CoefOfName(large[k]) >= CoefOfName(large[l])
        /\ \A tok \in Range(feature_names) \ Range(small) :
              CoefOfName(tok) >= CoefOfName(small[TopK])
        /\ \A tok \in Range(feature_names) \ Range(large) :
              CoefOfName(tok) <= CoefOfName(large[TopK])

\* within a list, of two features with equal coefficients the one with the
\* lower feature index comes first
TiesByIndex(list) ==
    \A k, l \in 1..Len(list) :
        (k < l /\ CoefOfName(list[k]) = CoefOfName(list[l])) =>
            IndexOfName(list[k]) < IndexOfName(list[l])

\* C7 as the spec states it: the ten most negative and the ten most positive
\* weights, each list in coefficient order, equal coefficients in feature
\* index order in both lists.
C7_ExtremesStableInBothLists ==
    InspectionShown => (ExtremesInOrder /\ TiesByIndex(shown[1]) /\ TiesByIndex(shown[2]))

\* C7, amended: for a coefficient vector of at least 20 features the cell
\* prints the ten features with the smallest coefficients, smallest first,
\* and the ten with the largest, largest first; the order among features
\* with equal coefficients is not fixed by the feature index.
C7_ExtremesInCoefficientOrder == InspectionShown => ExtremesInOrder

\* both lists were printed for a vector in which a listed coefficient repeats
C7_Witness ==
    /\ InspectionShown
    /\ Len(models[model].coef) >= 2 * TopK
    /\ \E k, l \in 1..TopK :
          k < l /\ CoefOfName(shown[2][k]) = CoefOfName(shown[2][l])
    /\ \E k, l \in 1..TopK :
          k < l /\ CoefOfName(shown[1][k]) = CoefOfName(shown[1][l])

TfidfFitted == vectorizers["tv"].fitted

\* the number of Train messages a token is in
TrainDocCount(tok) == Cardinality({i \in 1..Len(X_train) : tok \in TokensOf(X_train[i])})

\* the number of times a token occurs in Train
TrainOccurrences(tok) == SumSeq([i \in 1..Len(X_train) |-> Occurrences(X_train[i], tok)])

TfidfRow(doc) ==
    TransformCall("tv", vectorizers["tv"], <<doc>>).matrix.rows[1]

\* C8: after the TF-IDF vectorizer is fit with min_df=3, a token is in the
\* vocabulary exactly when it is in at least 3 distinct Train messages, and
\* a message that holds discarded tokens only transforms to the zero vector.
C8_MinDfCountsDocuments ==
    TfidfFitted =>
        LET voc == Range(vectorizers["tv"].vocabulary) IN
        /\ \A tok \in TrainTokens : tok \in voc <=> TrainDocCount(tok) >= 3
        /\ voc \subseteq TrainTokens
        /\ \A d \in TestMessages \cup NovelMessages :
              ~d.val.nan =>
                  /\ Len(TfidfRow(d)) = Cardinality(voc)
                  /\ (TokensOf(d) \cap voc = {} =>
                         TfidfRow(d) = ZeroRow(Cardinality(voc)))

\* a token that occurs at least 3 times in Train, in fewer than 3 messages,
\* was left out of a fitted vocabulary
C8_Witness ==
    /\ TfidfFitted
    /\ \E tok \in TrainTokens :
          /\ TrainOccurrences(tok) >= 3
          /\ TrainDocCount(tok) < 3
          /\ tok \notin Range(vectorizers["tv"].vocabulary)

\* C9: for test labels of both classes, applying a strictly increasing map
\* to the predicted scores leaves the value of roc_auc_score unchanged.
C9_AucRankOnly == Len(aucLog) = 2 => aucLog[1] = aucLog[2]

\* both scores were taken, the scores were changed in between, they hold a
\* tie, and the AUC is neither 0 nor 1
C9_Witness ==
    /\ Len(aucLog) = 2
    /\ \E i \in 1..Len(predictions) : predictions[i] > MaxScore
    /\ \E i, j \in 1..Len(predictions) : i # j /\ predictions[i] = predictions[j]
    /\ aucLog[2][1] > 0 /\ aucLog[2][1] < aucLog[2][2]

\* C10: in a top-to-bottom run, every evaluation of
\* model.predict(vect.transform(..)) uses a model that was fit on the matrix
\* of the vectorizer vect is bound to: the count pair for the first test
\* scoring, the TF-IDF pair for the second and for the ad-hoc prediction.
C10_ModelMatchesVectorizer ==
    /\ \A k \in 1..Len(predictLog) : predictLog[k].model_fit_by = predictLog[k].vect
    /\ \A k \in 1..Len(predictLog) :
          /\ k = 1 => predictLog[k] = PredictEntry("count_test", "cv", "m1", [fit_by |-> "cv"])
          /\ k = 2 => predictLog[k] = PredictEntry("tfidf_test", "tv", "m2", [fit_by |-> "tv"])
          /\ k = 3 => predictLog[k] = PredictEntry("adhoc", "tv", "m2", [fit_by |-> "tv"])
    /\ Len(predictLog) <= 3

\* all three predictions of a run were made
C10_Witness == pc = "done" /\ Len(predictLog) = 3 /\ vect = "tv" /\ model = "m2"

=============================================================================
